---- MODULE Spec2Model ----
(***************************************************************************)
(* A model of the WebSocket chat server host (platform/src/lib.rs).        *)
(*                                                                         *)
(* Threads: the polling thread (connection_handler), one handshake thread  *)
(* per accepted socket (handle_connection) and the owner, who calls        *)
(* accept, send, broadcast and close_client.  The clients mutex is a       *)
(* variable; a critical section that touches nothing another thread can    *)
(* see before the mutex is released is one step.  The per-client mutexes   *)
(* are only ever taken while the clients mutex is held, and the            *)
(* event_queue mutex is only held for one push or one pop.                 *)
(*                                                                         *)
(* A socket's input is a byte stream: bytes in flight arrive in chunks     *)
(* (Deliver) and are consumed by read_exact as the code consumes them.     *)
(***************************************************************************)
EXTENDS Integers, Sequences, FiniteSets, TLC

\* ------------------------------------------------------------------ bounds
\* connections made over the run
MaxSockets == 2
\* things the outside does over the run: connections made, chunks of bytes arriving,
\* clients hanging up, calls of the owner
MaxEnvEvents == 4

\* --------------------------------------------------------- program constants
FIN == 128
OpContinuation == 0
OpText == 1
OpBinary == 2
OpClose == 8
OpPing == 9
OpPong == 10
InitialClientId == 1
MaxPayload == 65536
Len16Marker == 126
Len64Marker == 127
ReplacementChar == 65533

Sockets == 1..MaxSockets
\* the ids the counter hands out over the run; an id is unknown to the Registry
\* before its socket is registered and after it is removed
Ids == InitialClientId..(InitialClientId + MaxSockets - 1)

VARIABLES
    codecPc,          \* the codec run: "off", "input", "encoded", "masked", "decoded"
    cOpcode,          \* codec run: the opcode given to send_frame
    cLen,             \* codec run: the payload length
    cFill,            \* codec run: what the payload is filled with
    cMask,            \* codec run: the client's mask
    cWire,            \* codec run: the bytes on the wire
    cFrame,           \* codec run: what try_read_websocket_frame returned
    lockHolder,       \* lock run: mutex -> the thread that holds it, "none" otherwise
    lockProg,         \* lock run: thread -> the lock operations left in its current call
    GLOBAL_SERVER,    \* the host's server singleton is Some
    pollers,          \* polling threads spawned by listen
    clients,          \* the Registry: id -> [sock, is_websocket, is_closed]
    next_client_id,   \* the id counter
    event_queue,      \* the event queue
    clientsLock,      \* holder of the clients mutex: "none", "poll" or "owner"
    pollPc,           \* the polling thread's position
    scanTodo,         \* ids the running scan has not visited yet
    to_remove,        \* the scan's to_remove vector
    pendingEv,        \* the event the polling thread is about to push
    nsock,            \* sockets accepted so far
    sockId,           \* socket -> client_id given at accept time
    hsPc,             \* socket -> position of its handshake thread
    request,          \* socket -> the request its handshake thread has read and not yet
                      \*           acted on, "none" otherwise
    script,           \* socket -> the script its client follows, "none" before its first chunk
    nsent,            \* socket -> chunks of the script that have arrived
    inbuf,            \* socket -> bytes arrived and unread
    eof,              \* socket -> peer has shut its side down
    wrote,            \* the frames the last step tried to write: [sock, opcode, payload, ok]
    ownerPc,          \* the owner's position
    ownerArg,         \* the argument of the owner's call
    ownerRet,         \* what the owner's last call returned
    bcTodo,           \* ids broadcast's sweep has not visited yet
    failed_clients,   \* broadcast's failed_clients vector
    ownerWrote,       \* the frames the owner's call has tried to write so far
    budget,           \* outside events left
    enqueued,         \* history: every event pushed, in push order
    returned,         \* history: every event accept returned, in return order
    decoded,          \* history: the event of every frame the scan decoded, in decode order
    removed           \* history: ids deleted from the Registry, with who deleted them

vars == <<codecPc, cOpcode, cLen, cFill, cMask, cWire, cFrame, lockHolder, lockProg, GLOBAL_SERVER, pollers, clients, next_client_id, event_queue, clientsLock, pollPc, scanTodo,
          to_remove, pendingEv, nsock, sockId, hsPc, request, script, nsent, inbuf, eof, wrote,
          ownerPc, ownerArg, ownerRet, bcTodo, failed_clients, ownerWrote, budget,
          enqueued, returned, decoded, removed>>

codecVars == <<codecPc, cOpcode, cLen, cFill, cMask, cWire, cFrame>>

lockVars == <<lockHolder, lockProg>>
hostVars == <<GLOBAL_SERVER, pollers>>
serverVars == <<clients, next_client_id, event_queue, clientsLock>>
pollVars == <<pollPc, scanTodo, to_remove, pendingEv>>
sockVars == <<nsock, sockId, hsPc, request>>
streamVars == <<script, nsent, inbuf, eof>>
ownerVars == <<ownerPc, ownerArg, ownerRet, bcTodo, failed_clients, ownerWrote>>
histVars == <<enqueued, returned, decoded, removed>>

\* ------------------------------------------------------------------ events
Connected(id) == [type |-> "Connected", id |-> id, text |-> <<>>]
Disconnected(id) == [type |-> "Disconnected", id |-> id, text |-> <<>>]
Message(id, text) == [type |-> "Message", id |-> id, text |-> text]
NoEvent == [type |-> "none", id |-> 0, text |-> <<>>]

\* ------------------------------------------------------------------ bytes
RECURSIVE BitXor(_, _)
BitXor(a, b) ==
    IF a = 0 THEN b
    ELSE IF b = 0 THEN a
    ELSE (((a % 2) + (b % 2)) % 2) + (2 * BitXor(a \div 2, b \div 2))

\* mutant: the mask index is off by one
UnmaskShifted(payload, mask) ==
    [i \in 1..Len(payload) |-> BitXor(payload[i], mask[(i % 4) + 1])]

\* payload[i] ^= mask[i % 4], with 0-based i
Unmask(payload, mask) ==
    [i \in 1..Len(payload) |-> BitXor(payload[i], mask[((i - 1) % 4) + 1])]

\* from_be_bytes; a value past the limit is kept as "past the limit"
RECURSIVE BeValue(_, _)
BeValue(bytes, acc) ==
    IF bytes = <<>> THEN acc
    ELSE BeValue(Tail(bytes),
                 IF acc > MaxPayload THEN acc ELSE acc * 256 + Head(bytes))

\* String::from_utf8_lossy on bytes that are ASCII or can start no sequence
Utf8Lossy(payload) ==
    [i \in 1..Len(payload) |->
        IF payload[i] < 128 THEN payload[i] ELSE ReplacementChar]

\* read_exact(n) on a non-blocking stream: n bytes, or everything that was there
\* is consumed and the read fails (WouldBlock, or UnexpectedEof after the peer's FIN)
ReadExact(buf, n, atEof) ==
    IF Len(buf) >= n
    THEN [ok |-> TRUE, data |-> SubSeq(buf, 1, n),
          rest |-> SubSeq(buf, n + 1, Len(buf)), kind |-> "ok"]
    ELSE [ok |-> FALSE, data |-> <<>>, rest |-> <<>>,
          kind |-> IF atEof THEN "UnexpectedEof" ELSE "WouldBlock"]

\* the error texts of the decoder
ReadError == "Read error"
PayloadTooLarge == "Payload too large"
UnsupportedOpcode == "Unsupported opcode"

FrameErr(rest, why) == [res |-> "Err", payload |-> <<>>, rest |-> rest, err |-> why]
FrameOk(res, payload, rest) == [res |-> res, payload |-> payload, rest |-> rest, err |-> ""]

FrameOfOpcode(opcode, payload, rest) ==
    IF opcode = OpText THEN FrameOk("Text", Utf8Lossy(payload), rest)
    ELSE IF opcode = OpClose THEN FrameOk("Close", <<>>, rest)
    ELSE IF opcode = OpPing THEN FrameOk("Ping", payload, rest)
    ELSE IF opcode = OpPong THEN FrameOk("Pong", payload, rest)
    ELSE FrameErr(rest, UnsupportedOpcode)

try_read_websocket_frame(buf, atEof) ==
    LET h == ReadExact(buf, 2, atEof) IN
    IF ~h.ok
    THEN IF h.kind = "WouldBlock"
         THEN FrameOk("None", <<>>, h.rest)
         ELSE FrameErr(h.rest, ReadError)
    ELSE
    LET opcode == h.data[1] % 16
        len7 == h.data[2] % 128
        ext == IF len7 = Len16Marker THEN ReadExact(h.rest, 2, atEof)
               ELSE IF len7 = Len64Marker THEN ReadExact(h.rest, 8, atEof)
               ELSE [ok |-> TRUE, data |-> <<>>, rest |-> h.rest, kind |-> "ok"]
    IN
    IF ~ext.ok THEN FrameErr(ext.rest, ReadError)
    ELSE
    LET payload_len == IF len7 >= Len16Marker THEN BeValue(ext.data, 0) ELSE len7
        m == ReadExact(ext.rest, 4, atEof)
    IN
    IF ~m.ok THEN FrameErr(m.rest, ReadError)
    ELSE IF payload_len > MaxPayload THEN FrameErr(m.rest, PayloadTooLarge)
    ELSE
    LET p == ReadExact(m.rest, payload_len, atEof) IN
    IF ~p.ok THEN FrameErr(p.rest, ReadError)
    ELSE FrameOfOpcode(opcode, Unmask(p.data, m.data), p.rest)

\* -------------------------------------------------------------- the encoder
\* the limits of send_frame's length tiers and the markers it writes
SmallLenLimit == 126
U16Max == 65535
EncMarker16 == 126
EncMarker64 == 127

\* mutant: the bytes least significant first
RECURSIVE LeBytes(_, _)
LeBytes(n, k) ==
    IF k = 0 THEN <<>> ELSE <<n % 256>> \o LeBytes(n \div 256, k - 1)

\* to_be_bytes of an integer of k bytes
RECURSIVE BeBytes(_, _)
BeBytes(n, k) ==
    IF k = 0 THEN <<>> ELSE Append(BeBytes(n \div 256, k - 1), n % 256)

\* mutant: the one-byte form is used up to and including 126
LengthHeaderLate(n) ==
    IF n <= SmallLenLimit THEN <<n>>
    ELSE IF n <= U16Max THEN <<EncMarker16>> \o BeBytes(n, 2)
    ELSE <<EncMarker64>> \o BeBytes(n, 8)

\* send_frame: the length part of the header
LengthHeader(n) ==
    IF n < SmallLenLimit THEN <<n>>
    ELSE IF n <= U16Max THEN <<EncMarker16>> \o BeBytes(n, 2)
    ELSE <<EncMarker64>> \o BeBytes(n, 8)

\* send_frame: the bytes written, header then payload
send_frame(opcode, payload) ==
    <<FIN + opcode>> \o LengthHeader(Len(payload)) \o payload

\* ------------------------------------------------- what the clients send
\* a client frame: FIN + opcode, mask bit + length, the mask, the masked payload
Masked(payload, mask) ==
    [i \in 1..Len(payload) |-> BitXor(payload[i], mask[((i - 1) % 4) + 1])]
ClientFrame(opcode, payload, mask) ==
    <<FIN + opcode, 128 + Len(payload)>> \o mask \o Masked(payload, mask)

Mask1 == <<1, 2, 3, 4>>
M1 == <<97>>
M2 == <<98>>

\* a script is the chunks in which one client's bytes arrive; the chunk Fin is the
\* client shutting its side down
\* Text M1, Text M2, Close and one more Text, all at once
ScriptChat ==
    << ClientFrame(OpText, M1, Mask1) \o ClientFrame(OpText, M2, Mask1)
       \o ClientFrame(OpClose, <<>>, Mask1) \o ClientFrame(OpText, M1, Mask1) >>
\* Ping, Pong and a Binary frame, all at once
ScriptControl ==
    << ClientFrame(OpPing, <<>>, Mask1) \o ClientFrame(OpPong, <<>>, Mask1)
       \o ClientFrame(OpBinary, M1, Mask1) >>
\* one Text frame in three pieces: a header byte, the other header byte, the rest
ScriptSplit ==
    << SubSeq(ClientFrame(OpText, M1, Mask1), 1, 1),
       SubSeq(ClientFrame(OpText, M1, Mask1), 2, 2),
       SubSeq(ClientFrame(OpText, M1, Mask1), 3, 7) >>
\* no bytes: the client shuts its side down at once
Fin == <<-1>>
ScriptQuit == << Fin >>
ScriptNames == {"chat", "control", "split", "quit"}
Chunks(name) ==
    IF name = "chat" THEN ScriptChat
    ELSE IF name = "control" THEN ScriptControl
    ELSE IF name = "split" THEN ScriptSplit
    ELSE IF name = "quit" THEN ScriptQuit
    ELSE <<>>

\* what the first read of a new socket can yield: an upgrade request with its key,
\* one without, a plain GET, anything else, or no bytes (or an error)
Requests == {"upgrade", "upgrade_nokey", "get", "other", "nothing"}
\* mutant: every request passes
AnyRequest(req) == TRUE
ContainsUpgrade(req) == req \in {"upgrade", "upgrade_nokey"}
HasKey(req) == req = "upgrade"
\* the status code of the upgrade response, which stands for the response on the wire
Http101 == 101

\* ------------------------------------------------------------ return values
\* what a call returned: the call, Ok or Err, the error text, the event (accept)
RetNone == [op |-> "none", kind |-> "none", err |-> "", ev |-> NoEvent]
RetOk(op) == [op |-> op, kind |-> "Ok", err |-> "", ev |-> NoEvent]
RetErr(op, msg) == [op |-> op, kind |-> "Err", err |-> msg, ev |-> NoEvent]
RetEvent(e) == [op |-> "accept", kind |-> "Ok", err |-> "", ev |-> e]
RetUnit(op) == [op |-> op, kind |-> "Unit", err |-> "", ev |-> NoEvent]
NotFound == "Client not found"
AlreadyRunning == "Server already running"
ListenFailed == "Failed to listen"
ConnectionClosed == "Connection closed"
WriteError == "Write error"

\* the text the owner sends
Hello == <<104>>

\* --------------------------------------------------------------- helpers
EmptyMap == [i \in {} |-> 0]
\* mutant: the entry is left in the map
MapRemoveNone(m, k) == m
MapInsert(m, k, v) == [x \in (DOMAIN m) \cup {k} |-> IF x = k THEN v ELSE m[x]]
MapRemove(m, k) == [x \in (DOMAIN m) \ {k} |-> m[x]]

NewClient(s) == [sock |-> s, is_websocket |-> TRUE, is_closed |-> FALSE]

\* mutant: the counter is read and not advanced
NextIdStuck(n) == n

\* *id += 1
NextId(n) == n + 1

\* mutant: the event is put at the front
PushFront(q, e) == <<e>> \o q

\* Vec::push on the event queue
Push(q, e) == Append(q, e)

\* mutant: the newest event is taken (Vec::pop)
QueueRemoveLast(q) == [ev |-> q[Len(q)], rest |-> SubSeq(q, 1, Len(q) - 1)]

\* queue.remove(0): the element returned and the queue left
QueueRemoveFirst(q) == [ev |-> Head(q), rest |-> Tail(q)]

\* send_frame on socket s, with the outcome of its write_all calls
Frame(s, opcode, payload, ok) ==
    [sock |-> s, opcode |-> opcode, payload |-> payload, ok |-> ok]

\* the socket is still held by the server: by its handshake thread or by the Registry
Live(s) ==
    \/ hsPc[s] \in {"read", "decide", "insert", "push"}
    \/ \E id \in DOMAIN clients : clients[id].sock = s

\* the client has seen the 101 response and may send frames
Upgraded(s) == hsPc[s] \in {"insert", "push", "done"}

\* the sockets of the Registry entry of id, if any: dropped when the entry is removed
SocksOf(id) == IF id \in DOMAIN clients THEN {clients[id].sock} ELSE {}

\* a stream variable after the TcpStreams of `socks` are dropped
Drop(f, socks, empty) == [s \in Sockets |-> IF s \in socks THEN empty ELSE f[s]]

ServerInit(b) ==
    /\ GLOBAL_SERVER = FALSE
    /\ pollers = 0
    /\ clients = EmptyMap
    /\ next_client_id = InitialClientId
    /\ event_queue = <<>>
    /\ clientsLock = "none"
    /\ pollPc = "accept"
    /\ scanTodo = {}
    /\ to_remove = <<>>
    /\ pendingEv = NoEvent
    /\ nsock = 0
    /\ sockId = [s \in Sockets |-> 0]
    /\ hsPc = [s \in Sockets |-> "free"]
    /\ request = [s \in Sockets |-> "none"]
    /\ script = [s \in Sockets |-> "none"]
    /\ nsent = [s \in Sockets |-> 0]
    /\ inbuf = [s \in Sockets |-> <<>>]
    /\ eof = [s \in Sockets |-> FALSE]
    /\ wrote = <<>>
    /\ ownerPc = "idle"
    /\ ownerArg = 0
    /\ ownerRet = RetNone
    /\ bcTodo = {}
    /\ failed_clients = <<>>
    /\ ownerWrote = <<>>
    /\ budget = b
    /\ enqueued = <<>>
    /\ returned = <<>>
    /\ decoded = <<>>
    /\ removed = {}

\* ---------------------------------------------------------------------------
\* The mutexes and the threads that take them
\* ---------------------------------------------------------------------------

\* the mutexes: the clients map, one per connection, the event queue, the id counter
ClientsMutex == <<"clients", 0>>

IdMutex == <<"next_client_id", 0>>

ClientMutex(id) == <<"client", id>>

QueueMutex == <<"event_queue", 0>>

Mutexes == {ClientsMutex, QueueMutex, IdMutex} \cup {ClientMutex(id) : id \in Ids}

\* the polling thread, a handshake thread and two threads of the owner
Threads == {"poll", "handshake", "owner1", "owner2"}

Lock(m) == <<"lock", m>>

Unlock(m) == <<"unlock", m>>

\* no lock run
LockOff ==
    /\ lockHolder = [m \in Mutexes |-> "none"]
    /\ lockProg = [t \in Threads |-> <<>>]

\* no codec run
CodecOff ==
    /\ codecPc = "off"
    /\ cOpcode = 0
    /\ cLen = 0
    /\ cFill = "none"
    /\ cMask = <<>>
    /\ cWire = <<>>
    /\ cFrame = FrameOk("None", <<>>, <<>>)

InitWith(b) == ServerInit(b) /\ CodecOff /\ LockOff

\* the state after new()
Init == InitWith(MaxEnvEvents)

\* ------------------------------------------------------- the polling thread
\* the top of the loop: at the start, and again once to_remove has been worked off
\* and the 10 ms sleep is over
AtAccept ==
    /\ pollers > 0
    /\ pollPc = "accept" \/ (pollPc = "remove" /\ to_remove = <<>>)

\* listener.accept() hands out a socket: the id is taken from the counter and the
\* handshake thread is spawned
PollAcceptSocket ==
    /\ AtAccept
    /\ nsock < MaxSockets
    /\ budget > 0
    /\ budget' = budget - 1
    /\ nsock' = nsock + 1
    /\ sockId' = [sockId EXCEPT ![nsock + 1] = next_client_id]
    /\ next_client_id' = NextId(next_client_id)
    /\ hsPc' = [hsPc EXCEPT ![nsock + 1] = "read"]
    /\ pollPc' = "lock"
    /\ wrote' = <<>>
    /\ UNCHANGED <<codecVars, lockVars, hostVars, clients, event_queue, clientsLock, scanTodo, to_remove,
                   pendingEv, request, streamVars, ownerVars, histVars>>

\* listener.accept() fails otherwise: sleep and try again, the scan is skipped
PollAcceptError ==
    /\ AtAccept
    /\ UNCHANGED vars

\* clients.lock(), after a socket was accepted or after listener.accept() found
\* none (WouldBlock): the scan starts with an empty to_remove
PollScanBegin ==
    /\ pollPc = "lock" \/ AtAccept
    /\ clientsLock = "none"
    /\ clientsLock' = "poll"
    /\ scanTodo' = DOMAIN clients
    /\ to_remove' = <<>>
    /\ pollPc' = "scan"
    /\ wrote' = <<>>
    /\ UNCHANGED <<codecVars, lockVars, hostVars, clients, next_client_id, event_queue, pendingEv, sockVars,
                   streamVars, ownerVars, budget, histVars>>

\* mutant: no decode result closes the connection
ClosesNever(res) == FALSE

\* a scan that also closes the connection when a Ping arrives
ClosesOnPing(res) == res \in {"Close", "Err", "Ping"}

\* what the scan does with the result of a decode: whether the client is marked
\* closed and queued for removal, and the event to push
ClosesOn(res) == res \in {"Close", "Err"}
EventOf(id, frame) ==
    IF frame.res = "Text" THEN Message(id, frame.payload)
    ELSE IF frame.res \in {"Close", "Err"} THEN Disconnected(id)
    ELSE NoEvent

\* one iteration of the scan's loop over the Registry
PollScanClient(id) ==
    /\ pollPc = "scan"
    /\ id \in scanTodo
    /\ scanTodo' = scanTodo \ {id}
    /\ LET c == clients[id]
           s == c.sock
           frame == try_read_websocket_frame(inbuf[s], eof[s])
           ev == EventOf(id, frame)
       IN
       IF c.is_closed
       THEN /\ to_remove' = Append(to_remove, id)
            /\ wrote' = <<>>
            /\ UNCHANGED <<codecVars, lockVars, hostVars, clients, pendingEv, pollPc, inbuf, decoded>>
       ELSE IF ~c.is_websocket
       THEN /\ wrote' = <<>>
            /\ UNCHANGED <<codecVars, lockVars, hostVars, clients, to_remove, pendingEv, pollPc, inbuf, decoded>>
       ELSE /\ inbuf' = [inbuf EXCEPT ![s] = frame.rest]
            /\ clients' = IF ClosesOn(frame.res)
                          THEN [clients EXCEPT ![id].is_closed = TRUE]
                          ELSE clients
            /\ to_remove' = IF ClosesOn(frame.res) THEN Append(to_remove, id)
                            ELSE to_remove
            /\ pendingEv' = ev
            /\ pollPc' = IF ev = NoEvent THEN "scan" ELSE "push"
            /\ decoded' = IF ev = NoEvent THEN decoded ELSE Append(decoded, ev)
            /\ IF frame.res = "Ping"
               THEN \E ok \in BOOLEAN : wrote' = <<Frame(s, OpPong, <<>>, ok)>>
               ELSE wrote' = <<>>
    /\ UNCHANGED <<codecVars, lockVars, hostVars, next_client_id, event_queue, clientsLock, sockVars, script, nsent,
                   eof, ownerVars, budget, enqueued, returned, removed>>

\* event_queue.lock().unwrap().push(..), still under the clients mutex
PollPush ==
    /\ pollPc = "push"
    /\ event_queue' = Push(event_queue, pendingEv)
    /\ enqueued' = Append(enqueued, pendingEv)
    /\ pendingEv' = NoEvent
    /\ pollPc' = "scan"
    /\ wrote' = <<>>
    /\ UNCHANGED <<codecVars, lockVars, hostVars, clients, next_client_id, clientsLock, scanTodo, to_remove, sockVars,
                   streamVars, ownerVars, budget, returned, decoded, removed>>

\* the loop over the Registry is over: the clients mutex is released
PollScanEnd ==
    /\ pollPc = "scan"
    /\ scanTodo = {}
    /\ clientsLock' = "none"
    /\ pollPc' = "remove"
    /\ wrote' = <<>>
    /\ UNCHANGED <<codecVars, lockVars, hostVars, clients, next_client_id, event_queue, scanTodo, to_remove, pendingEv,
                   sockVars, streamVars, ownerVars, budget, histVars>>

\* clients.lock().unwrap().remove(&id) for the next id of to_remove; the entry's
\* TcpStream is dropped with it
PollRemove ==
    /\ pollPc = "remove"
    /\ to_remove # <<>>
    /\ clientsLock = "none"
    /\ clients' = MapRemove(clients, Head(to_remove))
    /\ removed' = IF Head(to_remove) \in DOMAIN clients
                  THEN removed \cup {<<Head(to_remove), "poll">>}
                  ELSE removed
    /\ script' = script
    /\ nsent' = Drop(nsent, SocksOf(Head(to_remove)), 0)
    /\ inbuf' = Drop(inbuf, SocksOf(Head(to_remove)), <<>>)
    /\ eof' = Drop(eof, SocksOf(Head(to_remove)), FALSE)
    /\ to_remove' = Tail(to_remove)
    /\ wrote' = <<>>
    /\ UNCHANGED <<codecVars, lockVars, hostVars, next_client_id, event_queue, clientsLock, pollPc, scanTodo, pendingEv,
                   sockVars, ownerVars, budget, enqueued, returned, decoded>>

Poll ==
    \/ PollAcceptSocket
    \/ PollAcceptError
    \/ PollScanBegin
    \/ \E id \in Ids : PollScanClient(id)
    \/ PollPush
    \/ PollScanEnd
    \/ PollRemove

\* ---------------------------------------------------- the handshake threads
\* handle_connection: stream.read(&mut buffer); a failed or empty read is the
\* request "nothing"
HsRead(s) ==
    /\ hsPc[s] = "read"
    /\ \E req \in Requests : request' = [request EXCEPT ![s] = req]
    /\ hsPc' = [hsPc EXCEPT ![s] = "decide"]
    /\ wrote' = <<>>
    /\ UNCHANGED <<codecVars, lockVars, hostVars, serverVars, pollVars, nsock, sockId, streamVars, ownerVars,
                   budget, histVars>>

\* handle_connection after the read: a request with the upgrade marker goes to
\* handle_websocket_upgrade, which fails without a key and otherwise writes the 101
\* response, whose write can fail; every other request ends the thread (a GET is
\* answered with a file or an error page first)
HsUpgrade(s) ==
    /\ hsPc[s] = "decide"
    /\ IF ContainsUpgrade(request[s]) /\ HasKey(request[s])
       THEN \E ok \in BOOLEAN :
               /\ wrote' = <<Frame(s, Http101, <<>>, ok)>>
               /\ hsPc' = [hsPc EXCEPT ![s] = IF ok THEN "insert" ELSE "dropped"]
       ELSE /\ wrote' = <<>>
            /\ hsPc' = [hsPc EXCEPT ![s] = "dropped"]
    /\ request' = [request EXCEPT ![s] = "none"]
    /\ UNCHANGED <<codecVars, lockVars, hostVars, serverVars, pollVars, nsock, sockId, streamVars, ownerVars,
                   budget, histVars>>

\* clients.lock().unwrap().insert(client_id, client)
HsInsert(s) ==
    /\ hsPc[s] = "insert"
    /\ clientsLock = "none"
    /\ clients' = MapInsert(clients, sockId[s], NewClient(s))
    /\ hsPc' = [hsPc EXCEPT ![s] = "push"]
    /\ wrote' = <<>>
    /\ UNCHANGED <<codecVars, lockVars, hostVars, next_client_id, event_queue, clientsLock, pollVars, nsock,
                   sockId, request, streamVars, ownerVars, budget, histVars>>

\* event_queue.lock().unwrap().push(WebSocketEvent::Connected(client_id))
HsPush(s) ==
    /\ hsPc[s] = "push"
    /\ event_queue' = Push(event_queue, Connected(sockId[s]))
    /\ enqueued' = Append(enqueued, Connected(sockId[s]))
    /\ hsPc' = [hsPc EXCEPT ![s] = "done"]
    /\ wrote' = <<>>
    /\ UNCHANGED <<codecVars, lockVars, hostVars, clients, next_client_id, clientsLock, pollVars, nsock,
                   sockId, request, streamVars, ownerVars, budget, returned, decoded,
                   removed>>

Handshake ==
    \E s \in Sockets : HsRead(s) \/ HsUpgrade(s) \/ HsInsert(s) \/ HsPush(s)

\* ------------------------------------------------------------- the clients
\* the next chunk of a client's bytes arrives, or its FIN; its first chunk tells
\* which script the client follows
Deliver(s) ==
    /\ budget > 0
    /\ Upgraded(s)
    /\ Live(s)
    /\ \E name \in ScriptNames :
          /\ script[s] \in {"none", name}
          /\ nsent[s] < Len(Chunks(name))
          /\ script' = [script EXCEPT ![s] = name]
          /\ IF Chunks(name)[nsent[s] + 1] = Fin
             THEN /\ eof' = [eof EXCEPT ![s] = TRUE]
                  /\ inbuf' = inbuf
             ELSE /\ inbuf' = [inbuf EXCEPT ![s] = @ \o Chunks(name)[nsent[s] + 1]]
                  /\ eof' = eof
    /\ nsent' = [nsent EXCEPT ![s] = @ + 1]
    /\ budget' = budget - 1
    /\ wrote' = <<>>
    /\ UNCHANGED <<codecVars, lockVars, hostVars, serverVars, pollVars, sockVars, ownerVars, histVars>>

Client ==
    \E s \in Sockets : Deliver(s)

\* --------------------------------------------------------------- the owner
\* the ids a call can name: those handed out so far and the one the counter holds,
\* which stands for every id not handed out yet
CallIds == {id \in Ids : id <= next_client_id}

OwnerCall ==
    /\ ownerPc = "idle"
    /\ wrote' = <<>>
    /\ \/ /\ ~GLOBAL_SERVER
          /\ ownerPc' = "listen"
          /\ ownerArg' = 0
          /\ budget' = budget
       \/ /\ GLOBAL_SERVER
          /\ budget > 0
          /\ budget' = budget - 1
          /\ \/ /\ ownerPc' \in {"listen", "accept", "broadcast"}
                /\ ownerArg' = 0
             \/ /\ ownerPc' \in {"send", "close"}
                /\ ownerArg' \in CallIds
    /\ ownerRet' = RetNone
    /\ ownerWrote' = <<>>
    /\ UNCHANGED <<codecVars, lockVars, hostVars, serverVars, pollVars, sockVars, streamVars, bcTodo, failed_clients,
                   histVars>>

\* mutant: the singleton is never seen as set
NeverRunning(server) == FALSE

\* GLOBAL_SERVER.is_some()
IsRunning(server) == server

\* WebSocketServer::listen: bind, set_nonblocking and try_clone succeed or one of
\* them fails; on success the polling thread is spawned
listen(ok) ==
    /\ pollers' = IF ok THEN pollers + 1 ELSE pollers
    /\ ownerRet' = IF ok THEN RetOk("listen") ELSE RetErr("listen", ListenFailed)

\* webserver_listen: refuses when the singleton is set, otherwise makes a server,
\* calls its listen and keeps it as the singleton if that succeeded
webserver_listen ==
    /\ ownerPc = "listen"
    /\ wrote' = <<>>
    /\ IF IsRunning(GLOBAL_SERVER)
       THEN /\ ownerRet' = RetErr("listen", AlreadyRunning)
            /\ UNCHANGED hostVars
       ELSE \E ok \in BOOLEAN :
               /\ listen(ok)
               /\ GLOBAL_SERVER' = IF ok THEN TRUE ELSE GLOBAL_SERVER
    /\ ownerPc' = "idle"
    /\ UNCHANGED <<codecVars, lockVars, serverVars, pollVars, sockVars, streamVars, ownerArg,
                   bcTodo, failed_clients, ownerWrote, budget, histVars>>

\* accept: the queue is not empty, its first event is removed and returned
Accept ==
    /\ ownerPc = "accept"
    /\ wrote' = <<>>
    /\ event_queue # <<>>
    /\ event_queue' = QueueRemoveFirst(event_queue).rest
    /\ ownerRet' = RetEvent(QueueRemoveFirst(event_queue).ev)
    /\ returned' = Append(returned, QueueRemoveFirst(event_queue).ev)
    /\ ownerPc' = "idle"
    /\ ownerWrote' = ownerWrote
    /\ UNCHANGED <<codecVars, lockVars, hostVars, clients, next_client_id, clientsLock, pollVars, sockVars, streamVars,
                   ownerArg, bcTodo, failed_clients, budget, enqueued, decoded, removed>>

\* accept: the queue is empty, sleep 10 ms and look again
AcceptWait ==
    /\ ownerPc = "accept"
    /\ event_queue = <<>>
    /\ UNCHANGED vars

\* mutant: send without the is_closed check
SendUnchecked ==
    /\ ownerPc = "send"
    /\ wrote' = <<>>
    /\ clientsLock = "none"
    /\ IF ownerArg \notin DOMAIN clients
       THEN /\ ownerRet' = RetErr("send", NotFound)
            /\ ownerWrote' = ownerWrote
       ELSE \E ok \in BOOLEAN :
               /\ ownerWrote' = Append(ownerWrote,
                                        Frame(clients[ownerArg].sock, OpText, Hello, ok))
               /\ ownerRet' = IF ok THEN RetOk("send") ELSE RetErr("send", WriteError)
    /\ ownerPc' = "idle"
    /\ UNCHANGED <<codecVars, lockVars, hostVars, serverVars, pollVars, sockVars, streamVars, ownerArg, bcTodo,
                   failed_clients, budget, histVars>>

\* mutant: send marks the connection closed when its write fails
SendClosing ==
    /\ ownerPc = "send"
    /\ wrote' = <<>>
    /\ clientsLock = "none"
    /\ IF ownerArg \notin DOMAIN clients
       THEN /\ ownerRet' = RetErr("send", NotFound)
            /\ ownerWrote' = ownerWrote
            /\ clients' = clients
       ELSE IF clients[ownerArg].is_closed
       THEN /\ ownerRet' = RetErr("send", ConnectionClosed)
            /\ ownerWrote' = ownerWrote
            /\ clients' = clients
       ELSE \E ok \in BOOLEAN :
               /\ ownerWrote' = Append(ownerWrote,
                                        Frame(clients[ownerArg].sock, OpText, Hello, ok))
               /\ ownerRet' = IF ok THEN RetOk("send") ELSE RetErr("send", WriteError)
               /\ clients' = IF ok THEN clients
                              ELSE [clients EXCEPT ![ownerArg].is_closed = TRUE]
    /\ ownerPc' = "idle"
    /\ UNCHANGED <<codecVars, lockVars, hostVars, next_client_id, event_queue, clientsLock, pollVars, sockVars,
                   streamVars, ownerArg, bcTodo, failed_clients, budget, histVars>>

\* send: the whole call runs under the clients mutex
Send ==
    /\ ownerPc = "send"
    /\ wrote' = <<>>
    /\ clientsLock = "none"
    /\ IF ownerArg \notin DOMAIN clients
       THEN /\ ownerRet' = RetErr("send", NotFound)
            /\ ownerWrote' = ownerWrote
       ELSE IF clients[ownerArg].is_closed
       THEN /\ ownerRet' = RetErr("send", ConnectionClosed)
            /\ ownerWrote' = ownerWrote
       ELSE \E ok \in BOOLEAN :
               /\ ownerWrote' = Append(ownerWrote,
                                        Frame(clients[ownerArg].sock, OpText, Hello, ok))
               /\ ownerRet' = IF ok THEN RetOk("send") ELSE RetErr("send", WriteError)
    /\ ownerPc' = "idle"
    /\ UNCHANGED <<codecVars, lockVars, hostVars, serverVars, pollVars, sockVars, streamVars, ownerArg, bcTodo,
                   failed_clients, budget, histVars>>

\* broadcast: clients.lock(), failed_clients starts empty
BroadcastBegin ==
    /\ ownerPc = "broadcast"
    /\ wrote' = <<>>
    /\ clientsLock = "none"
    /\ clientsLock' = "owner"
    /\ bcTodo' = DOMAIN clients
    /\ failed_clients' = <<>>
    /\ ownerPc' = "sweep"
    /\ ownerWrote' = ownerWrote
    /\ UNCHANGED <<codecVars, lockVars, hostVars, clients, next_client_id, event_queue, pollVars, sockVars, streamVars,
                   ownerArg, ownerRet, budget, histVars>>

\* one iteration of broadcast's loop over the Registry
BroadcastWrite(id) ==
    /\ ownerPc = "sweep"
    /\ wrote' = <<>>
    /\ id \in bcTodo
    /\ bcTodo' = bcTodo \ {id}
    /\ IF clients[id].is_websocket /\ ~clients[id].is_closed
       THEN \E ok \in BOOLEAN :
               /\ ownerWrote' = Append(ownerWrote,
                                        Frame(clients[id].sock, OpText, Hello, ok))
               /\ failed_clients' = IF ok THEN failed_clients
                                    ELSE Append(failed_clients, id)
       ELSE /\ ownerWrote' = ownerWrote
            /\ failed_clients' = failed_clients
    /\ UNCHANGED <<codecVars, lockVars, hostVars, serverVars, pollVars, sockVars, streamVars, ownerPc, ownerArg,
                   ownerRet, budget, histVars>>

\* drop(clients)
BroadcastUnlock ==
    /\ ownerPc = "sweep"
    /\ wrote' = <<>>
    /\ bcTodo = {}
    /\ clientsLock' = "none"
    /\ ownerPc' = "sweep_close"
    /\ ownerWrote' = ownerWrote
    /\ UNCHANGED <<codecVars, lockVars, hostVars, clients, next_client_id, event_queue, pollVars, sockVars, streamVars,
                   ownerArg, ownerRet, bcTodo, failed_clients, budget, histVars>>

\* mutant: close_client writes the Close frame and leaves the entry in the Registry
close_client_keep(id, who) ==
    /\ clientsLock = "none"
    /\ clients' = clients
    /\ IF id \in DOMAIN clients
       THEN \E ok \in BOOLEAN :
               ownerWrote' = Append(ownerWrote,
                                    Frame(clients[id].sock, OpClose, <<>>, ok))
       ELSE ownerWrote' = ownerWrote
    /\ removed' = removed
    /\ UNCHANGED <<codecVars, lockVars, hostVars, script, nsent, inbuf, eof>>

\* mutant: close_client empties the Registry
close_client_all(id, who) ==
    /\ clientsLock = "none"
    /\ clients' = EmptyMap
    /\ IF id \in DOMAIN clients
       THEN /\ \E ok \in BOOLEAN :
                  ownerWrote' = Append(ownerWrote,
                                       Frame(clients[id].sock, OpClose, <<>>, ok))
            /\ removed' = removed \cup {<<id, who>>}
       ELSE /\ ownerWrote' = ownerWrote
            /\ removed' = removed
    /\ script' = script
    /\ nsent' = Drop(nsent, {clients[i].sock : i \in DOMAIN clients}, 0)
    /\ inbuf' = Drop(inbuf, {clients[i].sock : i \in DOMAIN clients}, <<>>)
    /\ eof' = Drop(eof, {clients[i].sock : i \in DOMAIN clients}, FALSE)

\* close_client(id): under the clients mutex, remove the entry and, if there was
\* one, write a Close frame to it, whatever the outcome; the TcpStream is dropped
close_client(id, who) ==
    /\ clientsLock = "none"
    /\ clients' = MapRemove(clients, id)
    /\ IF id \in DOMAIN clients
       THEN /\ \E ok \in BOOLEAN :
                  ownerWrote' = Append(ownerWrote,
                                       Frame(clients[id].sock, OpClose, <<>>, ok))
            /\ removed' = removed \cup {<<id, who>>}
       ELSE /\ ownerWrote' = ownerWrote
            /\ removed' = removed
    /\ script' = script
    /\ nsent' = Drop(nsent, SocksOf(id), 0)
    /\ inbuf' = Drop(inbuf, SocksOf(id), <<>>)
    /\ eof' = Drop(eof, SocksOf(id), FALSE)

\* broadcast: self.close_client(id) for the next id of failed_clients
BroadcastClose ==
    /\ ownerPc = "sweep_close"
    /\ wrote' = <<>>
    /\ failed_clients # <<>>
    /\ close_client(Head(failed_clients), "broadcast")
    /\ failed_clients' = Tail(failed_clients)
    /\ UNCHANGED <<codecVars, lockVars, hostVars, next_client_id, event_queue, clientsLock, pollVars, sockVars,
                   ownerPc, ownerArg, ownerRet, bcTodo, budget, enqueued, returned,
                   decoded>>

\* broadcast: Ok(())
BroadcastReturn ==
    /\ ownerPc = "sweep_close"
    /\ wrote' = <<>>
    /\ failed_clients = <<>>
    /\ ownerRet' = RetOk("broadcast")
    /\ ownerPc' = "idle"
    /\ ownerWrote' = ownerWrote
    /\ UNCHANGED <<codecVars, lockVars, hostVars, serverVars, pollVars, sockVars, streamVars, ownerArg, bcTodo,
                   failed_clients, budget, histVars>>

\* close_client called by the owner
CloseClient ==
    /\ ownerPc = "close"
    /\ wrote' = <<>>
    /\ close_client(ownerArg, "close")
    /\ ownerRet' = RetUnit("close")
    /\ ownerPc' = "idle"
    /\ UNCHANGED <<codecVars, lockVars, hostVars, next_client_id, event_queue, clientsLock, pollVars, sockVars,
                   ownerArg, bcTodo, failed_clients, budget, enqueued, returned,
                   decoded>>

Owner ==
    \/ OwnerCall
    \/ webserver_listen
    \/ Accept
    \/ AcceptWait
    \/ Send
    \/ BroadcastBegin
    \/ \E id \in Ids : BroadcastWrite(id)
    \/ BroadcastUnlock
    \/ BroadcastClose
    \/ BroadcastReturn
    \/ CloseClient

Next == Poll \/ Handshake \/ Client \/ Owner

Spec == Init /\ [][Next]_vars

\* the same program with one outside event less, under fairness:
\* every thread that can run does: the polling thread goes through its scan and
\* releases the clients mutex, after which it sleeps 10 ms with the mutex free, so
\* an owner waiting for the mutex gets it
FairSpec ==
    /\ InitWith(MaxEnvEvents - 1)
    /\ [][Next]_vars
    /\ WF_vars(\E id \in Ids : PollScanClient(id))
    /\ WF_vars(PollPush)
    /\ WF_vars(PollScanEnd)
    /\ SF_vars(Send)

\* the polling thread and a thread of the owner inside broadcast are scheduled
\* again and again
FairPollSpec ==
    /\ InitWith(MaxEnvEvents - 1)
    /\ [][Next]_vars
    /\ WF_vars(\E id \in Ids : PollScanClient(id))
    /\ WF_vars(PollPush)
    /\ WF_vars(PollScanEnd)
    /\ WF_vars(PollRemove)
    /\ WF_vars((\E id \in Ids : BroadcastWrite(id)) \/ BroadcastUnlock)

\* ------------------------------------------------------- the codec alone
\* send_frame and try_read_websocket_frame applied to one frame: the server's
\* encoder writes it, a client-side step inserts the mask and masks the payload,
\* the server's decoder reads it
CodecOpcodes == {OpText, OpClose, OpPing, OpPong}
SmallLens == {0, 1, 125, 126, 127}
BigLens == {65535, 65536, 65537}
\* lengths that are only declared in a header, with no payload behind it
DeclaredLens == {70000, 16777216, 2147483647}
CodecMasks == {<<0, 0, 0, 0>>, Mask1, <<255, 128, 7, 64>>}
\* "ascii": printable ASCII; "bad": the same with a first byte that is not UTF-8
Fills == {"ascii", "bad"}
Payload(len, fill) ==
    [i \in 1..len |-> IF fill = "bad" /\ i = 1 THEN 255 ELSE 32 + (i % 64)]

\* the length of the header send_frame wrote
HeaderLen(wire) ==
    IF wire[2] = EncMarker16 THEN 4 ELSE IF wire[2] = EncMarker64 THEN 10 ELSE 2

\* what a client does to a frame: mask bit set, mask inserted, payload masked
ApplyMask(wire, mask) ==
    <<wire[1], wire[2] + 128>> \o SubSeq(wire, 3, HeaderLen(wire)) \o mask
        \o Masked(SubSeq(wire, HeaderLen(wire) + 1, Len(wire)), mask)

CodecInit ==
    /\ ServerInit(0)
    /\ LockOff
    /\ codecPc = "input"
    /\ cOpcode \in CodecOpcodes
    /\ \/ cLen \in SmallLens /\ cFill \in Fills /\ cMask \in CodecMasks
       \/ cLen \in BigLens \cup DeclaredLens /\ cFill = "ascii" /\ cMask = Mask1
    /\ cWire = <<>>
    /\ cFrame = FrameOk("None", <<>>, <<>>)

serverGroup ==
    <<hostVars, serverVars, pollVars, sockVars, streamVars, ownerVars, histVars,
      budget, wrote>>

CodecEncode ==
    /\ codecPc = "input"
    /\ cLen \notin DeclaredLens
    /\ cWire' = send_frame(cOpcode, Payload(cLen, cFill))
    /\ codecPc' = "encoded"
    /\ UNCHANGED <<cOpcode, cLen, cFill, cMask, cFrame, lockVars, serverGroup>>

CodecApplyMask ==
    /\ codecPc = "encoded"
    /\ cWire' = ApplyMask(cWire, cMask)
    /\ codecPc' = "masked"
    /\ UNCHANGED <<cOpcode, cLen, cFill, cMask, cFrame, lockVars, serverGroup>>

\* a client's header that declares cLen in the 8-byte form, and its mask
CodecDeclare ==
    /\ codecPc = "input"
    /\ cLen \in DeclaredLens
    /\ cWire' = <<FIN + cOpcode, 128 + Len64Marker>> \o BeBytes(cLen, 8) \o cMask
    /\ codecPc' = "masked"
    /\ UNCHANGED <<cOpcode, cLen, cFill, cMask, cFrame, lockVars, serverGroup>>

CodecDecode ==
    /\ codecPc = "masked"
    /\ cFrame' = try_read_websocket_frame(cWire, FALSE)
    /\ cWire' = cFrame'.rest
    /\ codecPc' = "decoded"
    /\ UNCHANGED <<cOpcode, cLen, cFill, cMask, lockVars, serverGroup>>

CodecNext == CodecEncode \/ CodecApplyMask \/ CodecDeclare \/ CodecDecode

CodecSpec == CodecInit /\ [][CodecNext]_vars

\* ---------------------------------------------------------------------------
\* The lock run: every thread executes the lock and unlock operations of its
\* calls, in the order the code performs them
\* ---------------------------------------------------------------------------

\* the orders in which an iteration over the clients map can visit connections
Visits ==
    {v \in UNION {[1..n -> Ids] : n \in 0..MaxSockets} :
        \A i \in DOMAIN v : \A j \in DOMAIN v : i # j => v[i] # v[j]}

Range(s) == {s[i] : i \in DOMAIN s}

\* the scan: each connection's mutex is taken under the clients mutex, and the
\* queue's mutex under both when the frame gives an event
RECURSIVE ScanLocks(_, _)
ScanLocks(visits, pushes) ==
    IF visits = <<>> THEN <<>>
    ELSE LET id == Head(visits)
         IN  <<Lock(ClientMutex(id))>>
             \o (IF id \in pushes THEN <<Lock(QueueMutex), Unlock(QueueMutex)>> ELSE <<>>)
             \o <<Unlock(ClientMutex(id))>>
             \o ScanLocks(Tail(visits), pushes)

\* the removal loop: one lock of the clients mutex per removed id
RECURSIVE RemoveLocks(_)
RemoveLocks(n) ==
    IF n = 0 THEN <<>>
    ELSE <<Lock(ClientsMutex), Unlock(ClientsMutex)>> \o RemoveLocks(n - 1)

\* one cycle of the polling loop: the id counter when a socket was accepted, the
\* scan, the removals
connection_handler_locks(accepted, visits, pushes, n) ==
    (IF accepted THEN <<Lock(IdMutex), Unlock(IdMutex)>> ELSE <<>>)
    \o <<Lock(ClientsMutex)>> \o ScanLocks(visits, pushes) \o <<Unlock(ClientsMutex)>>
    \o RemoveLocks(n)

\* a handshake thread: the insert, then the push of Connected
handle_connection_locks(upgraded) ==
    IF upgraded
    THEN <<Lock(ClientsMutex), Unlock(ClientsMutex), Lock(QueueMutex), Unlock(QueueMutex)>>
    ELSE <<>>

\* one look of accept at the queue
accept_locks == <<Lock(QueueMutex), Unlock(QueueMutex)>>

send_locks(id, found) ==
    <<Lock(ClientsMutex)>>
    \o (IF found THEN <<Lock(ClientMutex(id)), Unlock(ClientMutex(id))>> ELSE <<>>)
    \o <<Unlock(ClientsMutex)>>

close_client_locks(id, found) ==
    <<Lock(ClientsMutex)>>
    \o (IF found THEN <<Lock(ClientMutex(id)), Unlock(ClientMutex(id))>> ELSE <<>>)
    \o <<Unlock(ClientsMutex)>>

RECURSIVE CloseLocks(_)
CloseLocks(failed) ==
    IF failed = <<>> THEN <<>>
    ELSE close_client_locks(Head(failed), TRUE) \o CloseLocks(Tail(failed))

\* a broadcast that calls close_client before it drops the clients guard
broadcast_locks_held(visits, failed) ==
    <<Lock(ClientsMutex)>> \o ScanLocks(visits, {}) \o CloseLocks(failed)
    \o <<Unlock(ClientsMutex)>>

\* broadcast: the writes under the clients mutex, the drop, then close_client for
\* each failed id
broadcast_locks(visits, failed) ==
    <<Lock(ClientsMutex)>> \o ScanLocks(visits, {}) \o <<Unlock(ClientsMutex)>>
    \o CloseLocks(failed)

\* the calls a thread can make
Programs(t) ==
    IF t = "poll"
    THEN {connection_handler_locks(a, v, p, n) :
             <<a, v, p, n>> \in {x \in BOOLEAN \X Visits \X (SUBSET Ids) \X (0..MaxSockets) :
                                    x[3] \subseteq Range(x[2]) /\ x[4] <= Len(x[2])}}
    ELSE IF t = "handshake"
    THEN {handle_connection_locks(TRUE)}
    ELSE {accept_locks}
         \cup {send_locks(id, f) : <<id, f>> \in Ids \X BOOLEAN}
         \cup {close_client_locks(id, f) : <<id, f>> \in Ids \X BOOLEAN}
         \cup {broadcast_locks(v, SelectSeq(v, LAMBDA id : id \in f)) :
                  <<v, f>> \in {x \in Visits \X (SUBSET Ids) : x[2] \subseteq Range(x[1])}}

\* a thread between two calls starts one
LockStart(t) ==
    /\ lockProg[t] = <<>>
    /\ \E p \in Programs(t) : lockProg' = [lockProg EXCEPT ![t] = p]
    /\ UNCHANGED <<lockHolder, codecVars, serverGroup>>

\* Mutex::lock: the thread goes on when nobody holds the mutex; a std Mutex is
\* not re-entrant, so its own hold blocks it too
LockAcquire(t) ==
    /\ lockProg[t] # <<>>
    /\ Head(lockProg[t])[1] = "lock"
    /\ lockHolder[Head(lockProg[t])[2]] = "none"
    /\ lockHolder' = [lockHolder EXCEPT ![Head(lockProg[t])[2]] = t]
    /\ lockProg' = [lockProg EXCEPT ![t] = Tail(@)]
    /\ UNCHANGED <<codecVars, serverGroup>>

\* the guard is dropped
LockRelease(t) ==
    /\ lockProg[t] # <<>>
    /\ Head(lockProg[t])[1] = "unlock"
    /\ lockHolder' = [lockHolder EXCEPT ![Head(lockProg[t])[2]] = "none"]
    /\ lockProg' = [lockProg EXCEPT ![t] = Tail(@)]
    /\ UNCHANGED <<codecVars, serverGroup>>

LockNext == \E t \in Threads : LockStart(t) \/ LockAcquire(t) \/ LockRelease(t)

LockSpec == InitWith(0) /\ [][LockNext]_vars

\* the mutex a thread is blocked on, and the mutexes it holds
Waiting(t) ==
    /\ lockProg[t] # <<>>
    /\ Head(lockProg[t])[1] = "lock"
    /\ lockHolder[Head(lockProg[t])[2]] # "none"

WaitsFor(t) == Head(lockProg[t])[2]

Held(t) == {m \in Mutexes : lockHolder[m] = t}

\* the order of the claim; the id counter's mutex has no place in it
Rank(m) ==
    IF m[1] = "clients" THEN 1
    ELSE IF m[1] = "client" THEN 2
    ELSE IF m[1] = "event_queue" THEN 3
    ELSE 0

\* ================================================================== claims
\* the events in the order accept yields them: those returned, then those queued
Stream == returned \o event_queue
IsPrefix(a, b) == Len(a) <= Len(b) /\ SubSeq(b, 1, Len(a)) = a
\* the Message and Disconnected events of one id, in the order of seq
OwnEvents(seq, id) ==
    SelectSeq(seq, LAMBDA e : e.id = id /\ e.type \in {"Message", "Disconnected"})
ChatEvents(id) == <<Message(id, M1), Message(id, M2), Disconnected(id)>>

\* C1: accept returns the head of a non-empty queue and removes exactly it: the
\* events returned so far, followed by the events still queued, are the events
\* enqueued, in the order they were enqueued.
C1_AcceptFifo == returned \o event_queue = enqueued

\* C1 witness: accept has returned twice, with more than one producer's events
\* enqueued, and an event is still queued behind the one returned last
C1_Witness ==
    /\ Len(returned) >= 2
    /\ event_queue # <<>>
    /\ ownerRet = RetEvent(returned[Len(returned)])
    /\ \E i \in 1..Len(enqueued) : enqueued[i].type = "Connected"
    /\ \E i \in 1..Len(enqueued) : enqueued[i].type = "Message"

\* C2: for every id, its Message and Disconnected events reach the owner in the
\* order in which the scan decoded that connection's frames; a client that sends
\* Text M1, Text M2, Close yields Message(M1), Message(M2), Disconnected in that order.
C2_DecodeOrder ==
    /\ \A id \in Ids : IsPrefix(OwnEvents(Stream, id), OwnEvents(decoded, id))
    /\ \A s \in Sockets :
          script[s] = "chat" => IsPrefix(OwnEvents(Stream, sockId[s]), ChatEvents(sockId[s]))

\* C2 witness: a client sent Text M1, Text M2, Close and all three events are out
C2_Witness ==
    \E s \in Sockets :
        script[s] = "chat" /\ OwnEvents(Stream, sockId[s]) = ChatEvents(sockId[s])

\* C3: once Disconnected(id) has been enqueued, no Message(id) is enqueued after it.
C3_NoMessageAfterDisconnected ==
    \A i, j \in 1..Len(enqueued) :
        (i < j /\ enqueued[i].type = "Disconnected")
            => ~(enqueued[j].type = "Message" /\ enqueued[j].id = enqueued[i].id)

\* C3 witness: a client that sent a Text frame right behind its Close frame has
\* been disconnected and removed; the Text frame behind the Close was in the buffer
C3_Witness ==
    \E s \in Sockets :
        /\ script[s] = "chat"
        /\ \E i \in 1..Len(enqueued) : enqueued[i] = Disconnected(sockId[s])
        /\ <<sockId[s], "poll">> \in removed

\* C4 as stated: Message(M1) and Message(M2) of one connection are adjacent in the
\* stream, no event of another connection lies between them.
C4_AdjacentAsClaimed ==
    \A i, j \in 1..Len(Stream) :
        (/\ i < j
         /\ Stream[i].id = Stream[j].id
         /\ Stream[i] = Message(Stream[i].id, M1)
         /\ Stream[j] = Message(Stream[j].id, M2))
            => j = i + 1

\* C4 amended: Message(M1) comes before Message(M2) of the same connection and no
\* Message or Disconnected event of that same connection lies between them; events
\* of other connections, and the connection's own Connected event, may lie between.
C4_OwnOrder ==
    \A i, j \in 1..Len(Stream) :
        (i < j /\ Stream[i].id = Stream[j].id)
            => /\ ~(Stream[i] = Message(Stream[i].id, M2)
                    /\ Stream[j] = Message(Stream[j].id, M1))
               /\ (Stream[i] = Message(Stream[i].id, M1)
                   /\ Stream[j] = Message(Stream[j].id, M2))
                      => \A k \in (i + 1)..(j - 1) :
                            \/ Stream[k].id # Stream[i].id
                            \/ Stream[k].type = "Connected"

\* C4 witness: a Message of another connection lies between Message(M1) and
\* Message(M2) of one connection
C4_Witness ==
    \E i, j \in 1..Len(Stream) :
        /\ i + 1 < j
        /\ Stream[i].id = Stream[j].id
        /\ Stream[i] = Message(Stream[i].id, M1)
        /\ Stream[j] = Message(Stream[j].id, M2)
        /\ \E k \in (i + 1)..(j - 1) :
              Stream[k].type = "Message" /\ Stream[k].id # Stream[i].id

\* C5: the ids given at accept time are strictly increasing in the order of
\* acceptance and all below the counter: no two sockets share an id and no id is
\* given again, whatever became of the sockets (handshake failed, removed).
C5_IdsIncrease ==
    /\ \A s \in 1..nsock : sockId[s] < next_client_id
    /\ \A s, u \in 1..nsock : s < u => sockId[s] < sockId[u]

\* C5 witness: a socket whose handshake failed used up an id, and the socket
\* accepted after the first one was removed got a later id
C5_Witness ==
    /\ nsock = 2
    /\ sockId[1] < sockId[2]
    /\ \/ hsPc[1] = "dropped"
       \/ \E who \in {"poll", "close", "broadcast"} : <<sockId[1], who>> \in removed

\* the step in which send returns
SendReturns == ownerPc = "send" /\ ownerPc' = "idle"

\* C6: send returns NotFound exactly when the id is not in the Registry, returns
\* ConnectionClosed when the id is present with is_closed set, and only otherwise
\* tries to write one Text frame to that connection; in the two error cases no
\* frame is written and the Registry and the event queue are unchanged; and a send
\* that was called returns.
C6_SendContract ==
    /\ [][SendReturns =>
            /\ (ownerRet' = RetErr("send", NotFound)) <=> (ownerArg \notin DOMAIN clients)
            /\ (ownerArg \in DOMAIN clients /\ clients[ownerArg].is_closed)
                  => ownerRet' = RetErr("send", ConnectionClosed)
            /\ ownerRet' \in {RetErr("send", NotFound), RetErr("send", ConnectionClosed)}
                  => /\ ownerWrote' = <<>>
                     /\ clients' = clients
                     /\ event_queue' = event_queue
            /\ (ownerArg \in DOMAIN clients /\ ~clients[ownerArg].is_closed)
                  => /\ \E ok \in BOOLEAN :
                          ownerWrote' = <<Frame(clients[ownerArg].sock, OpText, Hello, ok)>>
                     /\ ownerRet' \in {RetOk("send"), RetErr("send", WriteError)}
         ]_vars
    /\ (ownerPc = "send") ~> (ownerPc = "idle")

\* C6 witness: send has returned ConnectionClosed for a registered connection that
\* the scan had marked closed, and wrote nothing
C6_Witness ==
    /\ ownerPc = "idle"
    /\ ownerRet = RetErr("send", ConnectionClosed)
    /\ ownerArg \in DOMAIN clients
    /\ clients[ownerArg].is_closed
    /\ ownerWrote = <<>>

\* C7: when send fails because the write failed, the connection is left as it
\* was: it stays in the Registry with is_closed false, and send enqueues nothing.
C7_SendWriteFailure ==
    [][(SendReturns /\ ownerRet' = RetErr("send", WriteError))
          => /\ clients' = clients
             /\ ownerArg \in DOMAIN clients'
             /\ ~clients'[ownerArg].is_closed
             /\ event_queue' = event_queue
             /\ enqueued' = enqueued
      ]_vars

\* C7 witness: send has returned the write error after one failed Text frame and
\* the connection is registered and open
C7_Witness ==
    /\ ownerPc = "idle"
    /\ ownerRet = RetErr("send", WriteError)
    /\ ownerArg \in DOMAIN clients
    /\ ~clients[ownerArg].is_closed
    /\ Len(ownerWrote) = 1
    /\ ~ownerWrote[1].ok

\* the step in which broadcast returns, and the connections its sweep wrote to
BroadcastReturns == ownerPc = "sweep_close" /\ ownerPc' = "idle"
SweptOk ==
    {sockId[ownerWrote[i].sock] :
        i \in {j \in 1..Len(ownerWrote) : ownerWrote[j].opcode = OpText /\ ownerWrote[j].ok}}
SweptFailed ==
    {sockId[ownerWrote[i].sock] :
        i \in {j \in 1..Len(ownerWrote) : ownerWrote[j].opcode = OpText /\ ~ownerWrote[j].ok}}

\* C8 as stated: when broadcast returns it returns Ok, every connection whose
\* write failed is out of the Registry, removed by broadcast's close_client, and
\* every connection whose write succeeded is in the Registry and open.
C8_BroadcastAsClaimed ==
    [][BroadcastReturns =>
          /\ ownerRet' = RetOk("broadcast")
          /\ \A id \in SweptFailed :
                id \notin DOMAIN clients' /\ <<id, "broadcast">> \in removed'
          /\ \A id \in SweptOk :
                id \in DOMAIN clients' /\ ~clients'[id].is_closed
      ]_vars

\* C8 amended: broadcast returns Ok; during the sweep the Registry does not change;
\* when broadcast returns every connection whose write failed is out of the
\* Registry, removed by broadcast's close_client after the sweep or by the polling
\* loop before close_client got to it; a connection whose write succeeded is not
\* removed by broadcast: it is in the Registry unless the polling loop has
\* removed it in the meantime.
C8_BroadcastSweep ==
    [][/\ (ownerPc = "sweep") => (clients' = clients /\ removed' = removed)
       /\ BroadcastReturns =>
             /\ ownerRet' = RetOk("broadcast")
             /\ \A id \in SweptFailed :
                   /\ id \notin DOMAIN clients'
                   /\ <<id, "broadcast">> \in removed' \/ <<id, "poll">> \in removed'
             /\ \A id \in SweptOk :
                   /\ <<id, "broadcast">> \notin removed'
                   /\ id \in DOMAIN clients' \/ <<id, "poll">> \in removed'
      ]_vars

\* C8 witness: broadcast has returned Ok after a sweep over two open connections
\* of which one write failed: that one was removed by close_client, the other one
\* is registered and open
C8_Witness ==
    /\ ownerPc = "idle"
    /\ ownerRet = RetOk("broadcast")
    /\ Cardinality(SweptOk) = 1
    /\ Cardinality(SweptFailed) = 1
    /\ \A id \in SweptFailed : <<id, "broadcast">> \in removed /\ id \notin DOMAIN clients
    /\ \A id \in SweptOk : id \in DOMAIN clients /\ ~clients[id].is_closed

\* the step in which the owner's close_client returns
CloseReturns == ownerPc = "close" /\ ownerPc' = "idle"

\* C9: close_client(id) returns nothing; if id is registered its entry is removed
\* and one Close frame is written to its socket, whatever the outcome of the write;
\* if id is not registered (never was, or was closed before) nothing is written and
\* the Registry is unchanged; the entries of all other ids are unchanged.
C9_CloseClientLocal ==
    [][CloseReturns =>
          /\ ownerRet' = RetUnit("close")
          /\ (ownerArg \in DOMAIN clients)
                => /\ clients' = MapRemove(clients, ownerArg)
                   /\ \E ok \in BOOLEAN :
                         ownerWrote' = <<Frame(clients[ownerArg].sock, OpClose, <<>>, ok)>>
          /\ (ownerArg \notin DOMAIN clients)
                => /\ clients' = clients
                   /\ ownerWrote' = <<>>
          /\ \A id \in DOMAIN clients \ {ownerArg} :
                id \in DOMAIN clients' /\ clients'[id] = clients[id]
      ]_vars

\* C9 witness: close_client has returned from a call on an id that an earlier
\* close_client had removed: it wrote nothing and another connection is registered
C9_Witness ==
    /\ ownerPc = "idle"
    /\ ownerRet = RetUnit("close")
    /\ <<ownerArg, "close">> \in removed
    /\ ownerWrote = <<>>
    /\ \E id \in DOMAIN clients : id # ownerArg

\* the ids that have been deleted from the Registry
RemovedIds == {r[1] : r \in removed}

\* C10: an id that has been deleted from the Registry, by the polling loop, by
\* close_client or by broadcast, is never in the Registry again, and every send
\* to it returns NotFound.
C10_RemovalPermanent ==
    /\ [](\A id \in RemovedIds : id \notin DOMAIN clients)
    /\ [][(SendReturns /\ ownerArg \in RemovedIds)
             => ownerRet' = RetErr("send", NotFound)]_vars

\* C10 witness: after the polling loop removed a connection and another socket was
\* accepted, send to the removed id has returned NotFound
C10_Witness ==
    /\ ownerPc = "idle"
    /\ ownerRet = RetErr("send", NotFound)
    /\ <<ownerArg, "poll">> \in removed
    /\ nsock = 2
    /\ sockId[2] > ownerArg

\* the step in which the hosted listen returns
ListenReturns == ownerPc = "listen" /\ ownerPc' = "idle"

\* C11: a listen called after a listen that succeeded fails with AlreadyRunning
\* and spawns no polling thread; at most one polling thread is ever spawned, and
\* one runs exactly when a listen has succeeded.
C11_ListenOnce ==
    /\ [](pollers <= 1 /\ (GLOBAL_SERVER <=> pollers = 1))
    /\ [][(ListenReturns /\ GLOBAL_SERVER)
             => /\ ownerRet' = RetErr("listen", AlreadyRunning)
                /\ pollers' = pollers
                /\ GLOBAL_SERVER']_vars

\* C11 witness: with the server running, a second listen has returned
\* AlreadyRunning and one polling thread exists
C11_Witness ==
    /\ ownerPc = "idle"
    /\ ownerRet = RetErr("listen", AlreadyRunning)
    /\ GLOBAL_SERVER
    /\ pollers = 1

\* the step in which the handshake thread of s acts on the request it read
HsDecides(s) == hsPc[s] = "decide" /\ hsPc'[s] # "decide"

\* C12: the handshake thread goes on to register its connection exactly when the
\* request had the upgrade marker and a key and the 101 response was written; that
\* step changes neither the Registry nor the event queue.  A socket's id is (or
\* has been) in the Registry, and its Connected event is enqueued, only after such
\* a handshake; a socket that was dropped has no Registry entry and no event.
C12_RegisteredIffUpgraded ==
    /\ [][\A s \in Sockets :
             HsDecides(s) =>
                /\ hsPc'[s] \in {"insert", "dropped"}
                /\ (hsPc'[s] = "insert")
                      <=> (/\ request[s] = "upgrade"
                           /\ wrote' = <<Frame(s, Http101, <<>>, TRUE)>>)
                /\ clients' = clients
                /\ event_queue' = event_queue]_vars
    /\ [](\A s \in 1..nsock :
             /\ (sockId[s] \in DOMAIN clients \/ sockId[s] \in RemovedIds)
                   <=> (hsPc[s] \in {"push", "done"})
             /\ (\E i \in 1..Len(enqueued) : enqueued[i] = Connected(sockId[s]))
                   <=> (hsPc[s] = "done")
             /\ (hsPc[s] \in {"read", "decide", "dropped"})
                   => \A i \in 1..Len(enqueued) : enqueued[i].id # sockId[s])

\* C12 witness: of two sockets one was dropped in its handshake and left no trace,
\* the other one is registered and its Connected event is enqueued
C12_Witness ==
    /\ nsock = 2
    /\ hsPc[1] = "dropped"
    /\ hsPc[2] = "done"
    /\ DOMAIN clients = {sockId[2]}
    /\ enqueued = <<Connected(sockId[2])>>

\* C13 as stated: every connection that the polling loop removed (after a Close
\* frame or a read or decode error) or that broadcast removed (after a failed
\* write) has its Disconnected event enqueued.
C13_FailureGivesDisconnected ==
    \A r \in removed :
        r[2] \in {"poll", "broadcast"}
            => \E i \in 1..Len(enqueued) : enqueued[i] = Disconnected(r[1])

\* the polling loop's half of C13, which holds: a connection it removed has its
\* Disconnected event enqueued
C13_PollGivesDisconnected ==
    \A r \in removed :
        r[2] = "poll" => \E i \in 1..Len(enqueued) : enqueued[i] = Disconnected(r[1])

\* the number that bytes spell, most significant byte first
RECURSIVE BeNumber(_)
BeNumber(bytes) ==
    IF bytes = <<>> THEN 0
    ELSE BeNumber(SubSeq(bytes, 1, Len(bytes) - 1)) * 256 + bytes[Len(bytes)]

\* C14: send_frame writes a payload of length 0..125 with the one-byte length, of
\* length 126..65535 with marker 126 and two big-endian bytes, and of length
\* >= 65536 with marker 127 and eight big-endian bytes; the decoder reads all
\* three forms, accepts a declared length of 65536 and fails with "Payload too
\* large" for every declared length above it.
C14_LengthTiers ==
    /\ codecPc = "encoded" =>
          /\ cWire[1] = 128 + cOpcode
          /\ cLen <= 125 => (cWire[2] = cLen /\ Len(cWire) = 2 + cLen)
          /\ (126 <= cLen /\ cLen <= 65535)
                => /\ cWire[2] = 126
                   /\ BeNumber(SubSeq(cWire, 3, 4)) = cLen
                   /\ Len(cWire) = 4 + cLen
          /\ cLen >= 65536
                => /\ cWire[2] = 127
                   /\ BeNumber(SubSeq(cWire, 3, 10)) = cLen
                   /\ Len(cWire) = 10 + cLen
    /\ codecPc = "decoded" =>
          /\ cLen <= 65536
                => /\ cFrame.res \in {"Text", "Close", "Ping", "Pong"}
                   /\ cFrame.rest = <<>>
                   /\ cFrame.res # "Close" => Len(cFrame.payload) = cLen
          /\ cLen > 65536 => (cFrame.res = "Err" /\ cFrame.err = PayloadTooLarge)

\* C14 witness: a Pong of 126 bytes, the first length of the two-byte form, went
\* through the encoder and the decoder
C14_Witness ==
    /\ codecPc = "decoded"
    /\ cOpcode = OpPong
    /\ cLen = 126
    /\ cFrame.res = "Pong"
    /\ Len(cFrame.payload) = 126

\* the opcode of the frame the decoder returned
DecodedOpcode ==
    IF cFrame.res = "Text" THEN OpText
    ELSE IF cFrame.res = "Close" THEN OpClose
    ELSE IF cFrame.res = "Ping" THEN OpPing
    ELSE IF cFrame.res = "Pong" THEN OpPong
    ELSE -1
RoundTripLens == {0, 1, 125, 126, 65535, 65536}

\* C15 as stated: for every opcode of Text, Close, Ping, Pong, every payload of a
\* length in RoundTripLens and every mask, the decoder returns the opcode and the
\* payload that went into the encoder.
C15_RoundTripAsClaimed ==
    (codecPc = "decoded" /\ cLen \in RoundTripLens)
        => /\ DecodedOpcode = cOpcode
           /\ cFrame.payload = Payload(cLen, cFill)

\* C15 amended: the decoder returns the opcode and consumes the whole frame; it
\* returns the payload for Ping and Pong, and for Text when the payload is valid
\* UTF-8 (an invalid byte comes back as U+FFFD); a Close frame comes back without
\* its payload.
C15_RoundTrip ==
    (codecPc = "decoded" /\ cLen \in RoundTripLens)
        => /\ DecodedOpcode = cOpcode
           /\ cFrame.rest = <<>>
           /\ cOpcode \in {OpPing, OpPong} => cFrame.payload = Payload(cLen, cFill)
           /\ (cOpcode = OpText /\ cFill = "ascii")
                 => cFrame.payload = Payload(cLen, cFill)
           /\ (cOpcode = OpText /\ cFill = "bad")
                 => cFrame.payload =
                       [i \in 1..cLen |-> IF i = 1 THEN 65533 ELSE Payload(cLen, cFill)[i]]
           /\ cOpcode = OpClose => cFrame.payload = <<>>

\* C15 witness: a Ping of 126 bytes masked with a mask of four different bytes
\* came back with its payload
C15_Witness ==
    /\ codecPc = "decoded"
    /\ cOpcode = OpPing
    /\ cLen = 126
    /\ cMask = <<255, 128, 7, 64>>
    /\ cFrame.res = "Ping"
    /\ cFrame.payload = Payload(126, "ascii")

\* the connections on which the holder of the clients mutex has done socket I/O
\* since it took the mutex: broadcast's writes so far, and the connections the
\* running scan has read from (those it visited and found open)
IoUnderLock ==
    IF clientsLock = "owner"
    THEN {ownerWrote[i].sock : i \in 1..Len(ownerWrote)}
    ELSE IF clientsLock = "poll"
    THEN {clients[id].sock :
             id \in {x \in DOMAIN clients \ scanTodo :
                        ~clients[x].is_closed \/ x \in {to_remove[i] : i \in 1..Len(to_remove)}}}
    ELSE {}

\* C16 as stated: while the clients mutex is held, its holder does socket I/O on
\* at most one connection: the scan gives the mutex up between two connections and
\* broadcast writes without holding it.
C16_OneConnectionPerHold == Cardinality(IoUnderLock) <= 1

\* C17: no reachable state has a set of threads each blocked on a mutex that a
\* thread of the set holds (a thread blocked on its own hold included), and a
\* thread about to lock a mutex holds only mutexes that come before it in the
\* order clients map, connection, event queue; the id counter's mutex is only
\* taken and held alone.
C17_NoLockCycle ==
    /\ \A D \in SUBSET Threads \ {{}} :
           ~ \A t \in D : Waiting(t) /\ lockHolder[WaitsFor(t)] \in D
    /\ \A t \in Threads :
           lockProg[t] # <<>> /\ Head(lockProg[t])[1] = "lock"
               => /\ \A m \in Held(t) : Rank(m) < Rank(WaitsFor(t))
                  /\ IdMutex \in Held(t) \cup {WaitsFor(t)} => Held(t) = {}

\* the polling thread holds the clients mutex and a connection's mutex and is
\* blocked on the queue's mutex, which a thread of the owner holds, while the
\* other thread of the owner is blocked on the clients mutex
C17_Witness ==
    /\ Held("poll") = {ClientsMutex, ClientMutex(1)}
    /\ Waiting("poll") /\ WaitsFor("poll") = QueueMutex
    /\ lockHolder[QueueMutex] = "owner1"
    /\ Waiting("owner2") /\ WaitsFor("owner2") = ClientsMutex

\* the step's writes of a Close frame to socket s
ClosesWritten(s) ==
    {f \in Range(wrote') \cup Range(ownerWrote') : f.sock = s /\ f.opcode = OpClose}

\* C18 as stated: a connection that leaves the clients map has is_closed set and
\* has been sent a Close frame, whichever way it came to be closed (a Close frame
\* from the peer, close_client, a read or write error).
C18_CloseFrameAndFlag ==
    [][\A id \in DOMAIN clients \ DOMAIN clients' :
           /\ clients[id].is_closed
           /\ ClosesWritten(clients[id].sock) # {}]_vars

\* the scan visits connection id, which is open
ScansOpen(id) ==
    /\ pollPc = "scan"
    /\ id \in scanTodo
    /\ id \notin scanTodo'
    /\ clients[id].is_websocket
    /\ ~clients[id].is_closed

\* the next bytes of socket s are the client's frame with this opcode, no payload
AtHead(s, opcode) == IsPrefix(ClientFrame(opcode, <<>>, Mask1), inbuf[s])

\* C19: when the scan reads a Ping from an open connection it writes one Pong
\* frame with no payload to that connection, and when it reads a Pong it writes
\* nothing; either way, and whether or not the Pong could be written, the
\* connection stays in the clients map with is_closed false, is not queued for
\* removal, and no event is pushed.
C19_PingPong ==
    [][\A id \in Ids :
          ScansOpen(id) =>
             LET s == clients[id].sock
             IN  /\ AtHead(s, OpPing) =>
                       /\ Len(wrote') = 1
                       /\ wrote'[1].sock = s
                       /\ wrote'[1].opcode = OpPong
                       /\ wrote'[1].payload = <<>>
                 /\ AtHead(s, OpPong) => wrote' = <<>>
                 /\ AtHead(s, OpPing) \/ AtHead(s, OpPong) =>
                       /\ clients' = clients
                       /\ to_remove' = to_remove
                       /\ pendingEv' = NoEvent
                       /\ pollPc' = "scan"
                       /\ event_queue' = event_queue
                       /\ enqueued' = enqueued
                       /\ Len(inbuf'[s]) = Len(inbuf[s]) - 6]_vars

\* a client's Ping and Pong have both been read, the Pong reply failed or not,
\* and the connection is still open in the clients map with nothing pushed for it
C19_Witness ==
    \E id \in DOMAIN clients :
        /\ script[clients[id].sock] = "control"
        /\ inbuf[clients[id].sock] = ClientFrame(OpBinary, M1, Mask1)
        /\ ~clients[id].is_closed
        /\ OwnEvents(enqueued, id) = <<>>

\* C20: when a polling cycle has ended (its removal loop has nothing left) no
\* entry of the clients map has is_closed set, and under fair scheduling every
\* entry with is_closed set eventually leaves the map.
C20_ClosedAreRemoved ==
    /\ [](pollPc = "accept" \/ (pollPc = "remove" /\ to_remove = <<>>)
             => \A id \in DOMAIN clients : ~clients[id].is_closed)
    /\ \A id \in Ids :
           (id \in DOMAIN clients /\ clients[id].is_closed) ~> (id \notin DOMAIN clients)

\* a polling cycle has ended after it marked a connection closed and removed it
C20_Witness ==
    /\ pollPc = "remove"
    /\ to_remove = <<>>
    /\ \E id \in Ids : <<id, "poll">> \in removed /\ id \notin DOMAIN clients

\* the positions of the events of this type and id in the push history
Pushes(type, id) ==
    {i \in DOMAIN enqueued : enqueued[i].type = type /\ enqueued[i].id = id}

\* C21 as stated: every Message or Disconnected of an id is pushed after the
\* Connected of that id, whatever the interleaving of the handshake thread with
\* the polling loop.
C21_ConnectedFirst ==
    \A i \in DOMAIN enqueued :
        enqueued[i].type \in {"Message", "Disconnected"}
            => \E j \in Pushes("Connected", enqueued[i].id) : j < i

\* C22: the push history holds at most one Connected and at most one
\* Disconnected for each id.
C22_AtMostOnce ==
    \A id \in Ids :
        /\ Cardinality(Pushes("Connected", id)) <= 1
        /\ Cardinality(Pushes("Disconnected", id)) <= 1

\* a connection was connected, disconnected and removed by the polling loop, and
\* the loop has gone through a later scan
C22_Witness ==
    \E id \in Ids :
        /\ Pushes("Connected", id) # {}
        /\ Pushes("Disconnected", id) # {}
        /\ <<id, "poll">> \in removed
        /\ pollPc = "scan"

\* what the decoder returns for the unread bytes of the connection of id
DecodeOf(id) ==
    try_read_websocket_frame(inbuf[clients[id].sock], eof[clients[id].sock])

\* C23 as stated: when the scan's decode of an open connection reports no data
\* yet, the connection's unread bytes are what they were before the decode.
C23_NoDataConsumesNothing ==
    [][\A id \in Ids :
          ScansOpen(id) /\ DecodeOf(id).res = "None"
              => inbuf'[clients[id].sock] = inbuf[clients[id].sock]]_vars

\* C24 as stated: a connection whose client sends one well-formed masked Text
\* frame in pieces, and nothing else, is never marked closed and gets no
\* Disconnected.
C24_PartialArrivalIsNoError ==
    \A s \in Sockets :
        script[s] = "split"
            => /\ Pushes("Disconnected", sockId[s]) = {}
               /\ \A id \in DOMAIN clients :
                      clients[id].sock = s => ~clients[id].is_closed
====
